---- MODULE Spec2Model ----
(***************************************************************************)
(* Model of hadesmem's ProtectGuard (protect_guard.hpp) and of the         *)
(* DirectInputDevice8WProxy reference counting                             *)
(* (direct_input_device_8_w_proxy.cpp).                                    *)
(***************************************************************************)
EXTENDS Integers, Sequences, FiniteSets, TLC

\* ------------------------------------------------------------------ bounds
NumGuards == 2
MaxRefs == 4
MaxAliases == 2
MaxUnderflow == 1
MaxCleanups == 2
MaxCallbacks == 2
NumThreads == 2
NumProcesses == 2
NumModules == 2

Guards == 1..NumGuards
Threads == 1..NumThreads

\* ------------------------------------------------- page protection flags
PAGE_NOACCESS == 1
PAGE_READONLY == 2
PAGE_READWRITE == 4
PAGE_EXECUTE == 16
PAGE_EXECUTE_READWRITE == 64
PAGE_GUARD == 256

\* The protections the inspected region of the target process may start with.
InitProtections ==
  {PAGE_NOACCESS, PAGE_READONLY, PAGE_READWRITE, PAGE_EXECUTE,
   PAGE_READWRITE + PAGE_GUARD}

\* (protect & bit) != 0, for a single-bit mask.
HasFlag(protect, bit) == (protect \div bit) % 2 = 1

\* Classification of a region snapshot: guard pages and no-access pages are
\* 'bad'; readable and writable are read off the protection mask.
IsBadProtect(mbi) ==
  HasFlag(mbi.Protect, PAGE_GUARD) \/ HasFlag(mbi.Protect, PAGE_NOACCESS)

CanRead(mbi) ==
  \/ HasFlag(mbi.Protect, PAGE_READONLY)
  \/ HasFlag(mbi.Protect, PAGE_READWRITE)
  \/ HasFlag(mbi.Protect, PAGE_EXECUTE_READWRITE)

CanWrite(mbi) ==
  \/ HasFlag(mbi.Protect, PAGE_READWRITE)
  \/ HasFlag(mbi.Protect, PAGE_EXECUTE_READWRITE)

\* enum class ProtectGuardType
kRead == "kRead"
kWrite == "kWrite"
ProtectGuardType == {kRead, kWrite}

VARIABLES
  prot,       \* the protection of the inspected region of the target process
  orig,       \* its protection before any guard was constructed
  guards,     \* guards[g]: the ProtectGuard object in slot g
  op,         \* the last guard operation: its mutator calls and its result
  failed,     \* TRUE once a restoring mutator call has failed
  hist        \* hist[g]: history of the operations applied to live guard g

guardVars == <<prot, orig, guards, op, failed, hist>>

VARIABLES
  refs_,      \* the proxy's external reference count
  devRefs,    \* the wrapped device's own reference count
  aliases,    \* references to the wrapped device held by others, not the proxy
  proxy,      \* "live", or "destroyed" once Release has run delete this
  cleanups,   \* number of times the Cleanup hook has run
  pop,        \* the last call made on the proxy and what it did
  seq,        \* the run of AddRef calls followed by Release calls in progress
  obs,        \* what the last call let its caller and the device observe
  lastError,  \* the calling thread's last-error value (GetLastError)
  reg         \* reg[kind]: the callbacks registered for an operation kind

VARIABLES
  pc,         \* pc[t]: the statement of AddRef or Release thread t is at
  held,       \* held[t]: the references on the proxy thread t holds
  loc,        \* loc[t]: the locals of the call of thread t (zero, ret)
  trail,      \* trail[t]: the steps the call of thread t has taken
  late,       \* the statements that used the proxy after delete this
  zeroed,     \* number of decrements that brought refs_ to zero
  traceNoisy  \* the build evaluates the arguments of the noisy traces

threadVars == <<pc, held, loc, trail, late, zeroed, traceNoisy>>

proxyVars ==
  <<refs_, devRefs, aliases, proxy, cleanups, pop, seq, obs, lastError, reg,
    threadVars>>

VARIABLES
  dpc,        \* where the dumper is: stage, process and module
  dexit,      \* "running", or what main returned: "0" or "1"
  dlog,       \* dlog[p]: what became of process p and of its modules
  memonly     \* the --memonly switch

dumpVars == <<dpc, dexit, dlog, memonly>>

\* A slot holding no object yet.
NoGuard ==
  [st |-> "none", type_ |-> kRead, can_read_or_write_ |-> FALSE,
   old_protect_ |-> 0, mbi_ |-> [Protect |-> 0]]

\* pristineOld: the flags the mutator returned to the constructor's successful
\*   escalation call, as long as neither Restore nor a move has touched the
\*   guard, else 0;
\* prev: what the operation just before did, when it was a Restore:
\*   "noop" (no mutator call), "ok" or "fail" (its mutator call's result);
\* carry: the guard is responsible for restoring the region: it escalated
\*   the region, or a move handed it the responsibility of its source.
NoHist == [pristineOld |-> 0, prev |-> "none", carry |-> FALSE]

\* Query(process, address): the snapshot of the region as it is now.
Query == [Protect |-> prot]

\* Protect(process, mbi, protect): one call of the protection mutator on a
\* region whose protection is cur. ok is the environment's answer; the call
\* returns the previous flags.
Protect(cur, protect, ok) ==
  [ok |-> ok, ret |-> cur, prot |-> IF ok THEN protect ELSE cur]

\* One mutator call as the operations record it.
Call(protect, p) == [req |-> protect, ok |-> p.ok, ret |-> p.ret]

\* The record of one guard operation: the mutator calls it issued (calls),
\* the error it let out to its caller (thrown), the diagnostics it emitted
\* (diag), the can_read_or_write_ of the guard when it ran (crw) and the
\* guard's history before the operation (h).
Operation(name, g, cs, thrown, dg, crw, h) ==
  [name |-> name, g |-> g, calls |-> cs, thrown |-> thrown,
   diag |-> dg, crw |-> crw, h |-> h]

\* ------------------------------------------------------------ ProtectGuard
BadCheckSkipped(mbi) == FALSE

\* if (IsBadProtect(mbi_)) throw
BadCheck(mbi) == IsBadProtect(mbi)

SatisfiedSwapped(mbi, type) ==
  IF type = kRead THEN CanWrite(mbi) ELSE CanRead(mbi)

\* can_read_or_write_ = (type_ == kRead) ? CanRead(mbi_) : CanWrite(mbi_)
Satisfied(mbi, type) ==
  IF type = kRead THEN CanRead(mbi) ELSE CanWrite(mbi)

\* Bug: the fallback asks for execute+read+write again.
EscalateSameAgain(mbi, ok1, ok2) ==
  LET first == Protect(mbi.Protect, PAGE_EXECUTE_READWRITE, ok1)
      second == Protect(mbi.Protect, PAGE_EXECUTE_READWRITE, ok2)
      c1 == Call(PAGE_EXECUTE_READWRITE, first)
      c2 == Call(PAGE_EXECUTE_READWRITE, second)
  IN IF first.ok
       THEN [thrown |-> "none", calls |-> <<c1>>, old |-> first.ret,
             prot |-> first.prot]
     ELSE IF second.ok
       THEN [thrown |-> "none", calls |-> <<c1, c2>>, old |-> second.ret,
             prot |-> second.prot]
     ELSE [thrown |-> "AccessDenied", calls |-> <<c1, c2>>, old |-> 0,
           prot |-> mbi.Protect]

\* Bug: the fallback's return value is not stored in old_protect_.
EscalateDropsFallback(mbi, ok1, ok2) ==
  LET first == Protect(mbi.Protect, PAGE_EXECUTE_READWRITE, ok1)
      second == Protect(mbi.Protect, PAGE_READWRITE, ok2)
      c1 == Call(PAGE_EXECUTE_READWRITE, first)
      c2 == Call(PAGE_READWRITE, second)
  IN IF first.ok
       THEN [thrown |-> "none", calls |-> <<c1>>, old |-> first.ret,
             prot |-> first.prot]
     ELSE IF second.ok
       THEN [thrown |-> "none", calls |-> <<c1, c2>>, old |-> 0,
             prot |-> second.prot]
     ELSE [thrown |-> "AccessDenied", calls |-> <<c1, c2>>, old |-> 0,
           prot |-> mbi.Protect]

\* try { old_protect_ = Protect(PAGE_EXECUTE_READWRITE); }
\* catch (...) { old_protect_ = Protect(PAGE_READWRITE); }
\* ok1 and ok2 are the mutator's answers to the two requests; the error of
\* the second request leaves the constructor.
Escalate(mbi, ok1, ok2) ==
  LET first == Protect(mbi.Protect, PAGE_EXECUTE_READWRITE, ok1)
      second == Protect(mbi.Protect, PAGE_READWRITE, ok2)
      c1 == Call(PAGE_EXECUTE_READWRITE, first)
      c2 == Call(PAGE_READWRITE, second)
  IN IF first.ok
       THEN [thrown |-> "none", calls |-> <<c1>>, old |-> first.ret,
             prot |-> first.prot]
     ELSE IF second.ok
       THEN [thrown |-> "none", calls |-> <<c1, c2>>, old |-> second.ret,
             prot |-> second.prot]
     ELSE [thrown |-> "AccessDenied", calls |-> <<c1, c2>>, old |-> 0,
           prot |-> mbi.Protect]

\* ProtectGuard(process, mbi, type): what the constructor does on a region
\* snapshot mbi. thrown names the error that leaves the constructor.
Ctor(mbi, type, ok1, ok2) ==
  IF BadCheck(mbi)
    THEN [thrown |-> "InvalidProtection", calls |-> << >>, crw |-> FALSE,
          old |-> 0, prot |-> mbi.Protect]
  ELSE IF Satisfied(mbi, type)
    THEN [thrown |-> "none", calls |-> << >>, crw |-> TRUE,
          old |-> 0, prot |-> mbi.Protect]
  ELSE LET e == Escalate(mbi, ok1, ok2)
       IN [thrown |-> e.thrown, calls |-> e.calls, crw |-> FALSE,
           old |-> e.old, prot |-> e.prot]

\* Query(process, address) for an address: the snapshot of the region when
\* the address lies in it, the error when the address is not mapped.
QueryAddress(mapped) ==
  IF mapped
    THEN [thrown |-> "none", mbi |-> Query]
    ELSE [thrown |-> "NotFound", mbi |-> [Protect |-> 0]]

\* Bug: the query's error is swallowed and the guard is set up on an empty
\* snapshot.
CtorFromAddressSwallowsQueryError(q, type, ok1, ok2) ==
  Ctor(q.mbi, type, ok1, ok2)

\* ProtectGuard(process, address, type)
\*   : ProtectGuard(process, Query(process, address), type)
\* q is what Query did; its error leaves the constructor before the
\* delegated-to constructor runs.
CtorFromAddress(q, type, ok1, ok2) ==
  IF q.thrown # "none"
    THEN [thrown |-> q.thrown, calls |-> << >>, crw |-> FALSE, old |-> 0,
          prot |-> q.mbi.Protect]
    ELSE Ctor(q.mbi, type, ok1, ok2)

\* Bug: old_protect_ is not cleared after the restoring call.
RestoreKeepsOld(gd, cur, ok) ==
  IF gd.old_protect_ = 0
    THEN [thrown |-> FALSE, calls |-> << >>, guard |-> gd, prot |-> cur]
  ELSE IF ~gd.can_read_or_write_
    THEN LET p == Protect(cur, gd.old_protect_, ok)
         IN [thrown |-> ~p.ok, calls |-> <<Call(gd.old_protect_, p)>>,
             guard |-> gd, prot |-> p.prot]
  ELSE [thrown |-> FALSE, calls |-> << >>, guard |-> gd, prot |-> cur]

\* Restore(): on guard object gd, the region having protection cur. ok is the
\* mutator's answer should it be called. thrown: Protect's error leaves
\* Restore, and old_protect_ is then not cleared.
Restore(gd, cur, ok) ==
  IF gd.old_protect_ = 0
    THEN [thrown |-> FALSE, calls |-> << >>, guard |-> gd, prot |-> cur]
  ELSE IF ~gd.can_read_or_write_
    THEN LET p == Protect(cur, gd.old_protect_, ok)
         IN IF p.ok
              THEN [thrown |-> FALSE, calls |-> <<Call(gd.old_protect_, p)>>,
                    guard |-> [gd EXCEPT !.old_protect_ = 0], prot |-> p.prot]
              ELSE [thrown |-> TRUE, calls |-> <<Call(gd.old_protect_, p)>>,
                    guard |-> gd, prot |-> p.prot]
  ELSE [thrown |-> FALSE, calls |-> << >>,
        guard |-> [gd EXCEPT !.old_protect_ = 0], prot |-> cur]

\* Bug: the destructor lets Restore's error out.
RestoreUncheckedRethrows(gd, cur, ok) ==
  LET r == Restore(gd, cur, ok)
  IN [thrown |-> r.thrown, calls |-> r.calls, guard |-> r.guard,
      prot |-> r.prot, diag |-> 0]

\* RestoreUnchecked() noexcept: Restore with its error caught and reported
\* through the trace and the assertion.
RestoreUnchecked(gd, cur, ok) ==
  LET r == Restore(gd, cur, ok)
  IN [thrown |-> FALSE, calls |-> r.calls, guard |-> r.guard, prot |-> r.prot,
      diag |-> IF r.thrown THEN 1 ELSE 0]

\* ProtectGuard(ProtectGuard&& other): the objects after dst is
\* move-constructed from src.
MoveCtor(gs, dst, src) ==
  LET a == [gs EXCEPT ![dst] = gs[src]]
  IN [a EXCEPT ![src].old_protect_ = 0]

\* operator=(ProtectGuard&& other): the member assignments, in order, then
\* other.old_protect_ = 0. dst and src may be the same object.
MoveAssignOp(gs, dst, src) ==
  LET a == [gs EXCEPT ![dst].type_ = gs[src].type_,
                      ![dst].can_read_or_write_ = gs[src].can_read_or_write_,
                      ![dst].old_protect_ = gs[src].old_protect_,
                      ![dst].mbi_ = gs[src].mbi_]
  IN [a EXCEPT ![src].old_protect_ = 0]

Outcome(cs) ==
  IF cs = << >> THEN "noop" ELSE IF cs[1].ok THEN "ok" ELSE "fail"

\* The flags the mutator returned to the successful call among cs, else 0.
ReturnedTo(cs) ==
  IF \E i \in 1..Len(cs) : cs[i].ok
    THEN cs[CHOOSE i \in 1..Len(cs) : cs[i].ok].ret
    ELSE 0

\* The record of one call on the proxy: what it returned (ret), whether it
\* ran the Cleanup hook and delete this, how many foreign handles it released.
ProxyCall(name, r, cleanup, deleted, released) ==
  [name |-> name, ret |-> r, cleanup |-> cleanup, deleted |-> deleted,
   released |-> released]

NoSeq == [phase |-> "off", base |-> 0, n |-> 0, k |-> 0]

\* The operation kinds that have a callback list.
Kinds == {"GetDeviceState", "GetDeviceData"}

\* What a call let its caller and the device observe: the device's HRESULT
\* (hr) and the handle it returned (dobj), the handle the caller sees (obj),
\* the change of the proxy's and of the device's count (drefs, ddev) and the
\* device's count when the call returned (dev), the
\* caller's arguments (args), the data operations called on the device
\* (devCalls) and the arguments they were passed (devArgs), the callback
\* list that was run (cbs) and the result each of
\* its callbacks found (seen), and the last-error value on entry, when the
\* device was called and right after the device returned.
NoObs ==
  [hr |-> 0, dobj |-> "none", obj |-> "none", drefs |-> 0, ddev |-> 0,
   dev |-> 0, args |-> 0, devCalls |-> << >>, devArgs |-> 0, cbs |-> << >>,
   seen |-> << >>,
   errEntry |-> 0, errAtDevice |-> 0, errAfterDevice |-> 0]

\* No thread is inside a call of the proxy.
ThreadIdle ==
  /\ pc = [t \in Threads |-> "idle"]
  /\ held = [t \in Threads |-> 0]
  /\ loc = [t \in Threads |-> [zero |-> FALSE, ret |-> 0]]
  /\ trail = [t \in Threads |-> << >>]
  /\ late = {}
  /\ zeroed = 0
  /\ traceNoisy = FALSE

\* Nothing is known yet of a process (st) nor of its modules (mods).
NoLog == [st |-> "pending", mods |-> [m \in 1..NumModules |-> "pending"]]

\* The dumper is not running.
DumpIdle ==
  /\ dpc = [at |-> "off", p |-> 0, m |-> 0]
  /\ dexit = "running"
  /\ dlog = [p \in 1..NumProcesses |-> NoLog]
  /\ memonly = FALSE

\* A proxy nobody calls.
ProxyIdle ==
  /\ refs_ = 1
  /\ devRefs = 1
  /\ aliases = 0
  /\ proxy = "live"
  /\ cleanups = 0
  /\ pop = ProxyCall("none", 0, FALSE, FALSE, 0)
  /\ seq = NoSeq
  /\ obs = NoObs
  /\ lastError = 0
  /\ reg = [k \in Kinds |-> << >>]
  /\ ThreadIdle

\* No guard anywhere.
GuardIdle ==
  /\ prot = PAGE_READONLY
  /\ orig = prot
  /\ guards = [g \in Guards |-> NoGuard]
  /\ op = Operation("none", 0, << >>, "none", 0, FALSE, NoHist)
  /\ failed = FALSE
  /\ hist = [g \in Guards |-> NoHist]

Init ==
  /\ prot \in InitProtections
  /\ orig = prot
  /\ guards = [g \in Guards |-> NoGuard]
  /\ op = Operation("none", 0, << >>, "none", 0, FALSE, NoHist)
  /\ failed = FALSE
  /\ hist = [g \in Guards |-> NoHist]
  /\ ProxyIdle
  /\ DumpIdle

\* Objects are numbered in the order of their creation.
NextSlot(g) ==
  /\ guards[g].st = "none"
  /\ \A k \in Guards : k < g => guards[k].st # "none"

\* ProtectGuard guard{process, address, type} on an address of the region.
Construct(g, type, ok1, ok2) ==
  /\ NextSlot(g)
  /\ LET q == QueryAddress(TRUE)
         mbi == q.mbi
         c == CtorFromAddress(q, type, ok1, ok2)
     IN /\ prot' = c.prot
        /\ guards' = [guards EXCEPT ![g] =
             IF c.thrown = "none"
               THEN [st |-> "live", type_ |-> type,
                     can_read_or_write_ |-> c.crw, old_protect_ |-> c.old,
                     mbi_ |-> mbi]
               ELSE [NoGuard EXCEPT !.st = "failed"]]
        /\ hist' = [hist EXCEPT ![g] =
             IF c.thrown = "none"
               THEN [pristineOld |-> ReturnedTo(c.calls), prev |-> "none",
                     carry |-> ReturnedTo(c.calls) # 0]
               ELSE NoHist]
        /\ op' = Operation("Construct", g, c.calls, c.thrown, 0, c.crw,
                           NoHist)
  /\ UNCHANGED <<orig, failed, proxyVars, dumpVars>>

\* ProtectGuard guard{process, address, type} on an address that is not
\* mapped in the target process; the region is not involved.
ConstructUnmapped(g, type, ok1, ok2) ==
  /\ NextSlot(g)
  /\ LET q == QueryAddress(FALSE)
         c == CtorFromAddress(q, type, ok1, ok2)
     IN /\ guards' = [guards EXCEPT ![g] =
             IF c.thrown = "none"
               THEN [st |-> "live", type_ |-> type,
                     can_read_or_write_ |-> c.crw, old_protect_ |-> c.old,
                     mbi_ |-> q.mbi]
               ELSE [NoGuard EXCEPT !.st = "failed"]]
        /\ hist' = [hist EXCEPT ![g] =
             IF c.thrown = "none"
               THEN [pristineOld |-> ReturnedTo(c.calls), prev |-> "none",
                     carry |-> ReturnedTo(c.calls) # 0]
               ELSE NoHist]
        /\ op' = Operation("ConstructUnmapped", g, c.calls, c.thrown, 0,
                           c.crw, NoHist)
  /\ UNCHANGED <<prot, orig, failed, proxyVars, dumpVars>>

\* guard.Restore() called by the owner of the guard.
RestoreCall(g, ok) ==
  /\ guards[g].st = "live"
  /\ LET gd == guards[g]
         res == Restore(gd, prot, ok)
     IN /\ prot' = res.prot
        /\ guards' = [guards EXCEPT ![g] = res.guard]
        /\ hist' = [hist EXCEPT ![g] =
             [pristineOld |-> 0, prev |-> Outcome(res.calls),
              carry |-> IF Outcome(res.calls) = "ok" THEN FALSE ELSE @.carry]]
        /\ failed' = (failed \/ Outcome(res.calls) = "fail")
        /\ op' = Operation("Restore", g, res.calls,
                           IF res.thrown THEN "AccessDenied" ELSE "none",
                           0, gd.can_read_or_write_, hist[g])
  /\ UNCHANGED <<orig, proxyVars, dumpVars>>

\* ~ProtectGuard(): the guard goes out of scope or is deleted.
Destroy(g, ok) ==
  /\ guards[g].st = "live"
  /\ LET gd == guards[g]
         res == RestoreUnchecked(gd, prot, ok)
     IN /\ prot' = res.prot
        /\ guards' = [guards EXCEPT ![g] = [NoGuard EXCEPT !.st = "dead"]]
        /\ hist' = [hist EXCEPT ![g] = NoHist]
        /\ failed' = (failed \/ Outcome(res.calls) = "fail")
        /\ op' = Operation("Destroy", g, res.calls,
                           IF res.thrown THEN "AccessDenied" ELSE "none",
                           res.diag, gd.can_read_or_write_, hist[g])
  /\ UNCHANGED <<orig, proxyVars, dumpVars>>

\* ProtectGuard dst{std::move(src)}.
MoveConstruct(dst, src) ==
  /\ NextSlot(dst)
  /\ guards[src].st = "live"
  /\ guards' = MoveCtor(guards, dst, src)
  /\ hist' = [hist EXCEPT
       ![dst] = [NoHist EXCEPT !.carry = hist[src].carry],
       ![src] = NoHist]
  /\ op' = Operation("MoveConstruct", dst, << >>, "none", 0,
                     guards[src].can_read_or_write_, hist[src])
  /\ UNCHANGED <<prot, orig, failed, proxyVars, dumpVars>>

\* dst = std::move(src).
MoveAssign(dst, src) ==
  /\ guards[dst].st = "live"
  /\ guards[src].st = "live"
  /\ guards' = MoveAssignOp(guards, dst, src)
  /\ hist' = [g \in Guards |->
       IF g = dst THEN [NoHist EXCEPT !.carry = hist[src].carry]
       ELSE IF g = src THEN NoHist
       ELSE hist[g]]
  /\ op' = Operation("MoveAssign", dst, << >>, "none", 0,
                     guards[src].can_read_or_write_, hist[src])
  /\ UNCHANGED <<prot, orig, failed, proxyVars, dumpVars>>

\* The mutator's answers to the constructor's requests: the fallback request
\* is made only when the primary one failed.
Answers == {<<TRUE, TRUE>>, <<FALSE, TRUE>>, <<FALSE, FALSE>>}

Next ==
  \/ \E g \in Guards, type \in ProtectGuardType, ok \in Answers :
        Construct(g, type, ok[1], ok[2])
  \/ \E g \in Guards, type \in ProtectGuardType, ok \in Answers :
        ConstructUnmapped(g, type, ok[1], ok[2])
  \/ \E g \in Guards, ok \in BOOLEAN : RestoreCall(g, ok)
  \/ \E g \in Guards, ok \in BOOLEAN : Destroy(g, ok)
  \/ \E dst \in Guards, src \in Guards : MoveConstruct(dst, src)
  \/ \E dst \in Guards, src \in Guards : MoveAssign(dst, src)

vars == <<guardVars, proxyVars, dumpVars>>

Spec == Init /\ [][Next]_vars

\* ------------------------------------------------- ProtectGuard: claims
\* The last operation was a Restore call or a destruction.
IsRestoring == op.name \in {"Restore", "Destroy"}

C2_ProtectionRestoredOnceAllDestroyed ==
  ( /\ \A g \in Guards : guards[g].st # "live"
    /\ \E g \in Guards : guards[g].st = "dead"
    /\ ~failed )
  => prot = orig

\* C3: destroying a guard whose constructor escalated the region, and that
\* neither Restore nor a move has touched, issues exactly one mutator call,
\* requesting the flags the successful escalation call returned.
C3_DestroyRestoresPreviousFlags ==
  (op.name = "Destroy" /\ op.h.pristineOld # 0) =>
    /\ Len(op.calls) = 1
    /\ op.calls[1].req = op.h.pristineOld

\* An escalating guard destroyed, its one call putting the region back.
C3_Witness ==
  /\ op.name = "Destroy"
  /\ op.h.pristineOld = PAGE_EXECUTE
  /\ Len(op.calls) = 1
  /\ op.calls[1].ok
  /\ prot = orig

\* C4: on a region classified Bad every construction fails with
\* InvalidProtection, no guard ever exists and no mutator call is ever made,
\* so the region keeps its protection.
C4_BadRegionNeverTouched ==
  (HasFlag(orig, PAGE_GUARD) \/ HasFlag(orig, PAGE_NOACCESS)) =>
    /\ prot = orig
    /\ op.calls = << >>
    /\ op.name \in {"none", "Construct", "ConstructUnmapped"}
    /\ op.name = "Construct" => op.thrown = "InvalidProtection"
    /\ \A g \in Guards : guards[g].st \in {"none", "failed"}

\* Two constructions on a guard page have both failed.
C4_Witness ==
  /\ HasFlag(orig, PAGE_GUARD)
  /\ op.name = "Construct"
  /\ op.thrown = "InvalidProtection"
  /\ guards[1].st = "failed"
  /\ guards[2].st = "failed"

\* C5: a guard whose region snapshot satisfies its mode has
\* can_read_or_write_ set and no previous flags to restore, and no operation
\* run on a guard with can_read_or_write_ set issues a mutator call.
C5_SatisfiedGuardIssuesNoCall ==
  /\ \A g \in Guards :
       ( /\ guards[g].st = "live"
         /\ \/ guards[g].type_ = kRead /\ CanRead(guards[g].mbi_)
            \/ guards[g].type_ = kWrite /\ CanWrite(guards[g].mbi_) )
       => guards[g].can_read_or_write_ /\ guards[g].old_protect_ = 0
  /\ op.crw => op.calls = << >>

\* A guard on an already readable region: Restore, then destruction.
C5_Witness ==
  /\ orig = PAGE_READONLY
  /\ prot = orig
  /\ op.name = "Destroy"
  /\ op.crw
  /\ op.h.prev = "noop"
  /\ op.calls = << >>

\* C6: a construction issues at most two mutator calls: execute+read+write
\* first and, only if that fails, read+write once; if both fail the
\* construction fails with that error and no guard exists to restore
\* anything.
C6_AtMostTwoAttempts ==
  /\ op.name = "Construct" =>
       /\ Len(op.calls) <= 2
       /\ Len(op.calls) >= 1 => op.calls[1].req = PAGE_EXECUTE_READWRITE
       /\ Len(op.calls) = 1 => op.calls[1].ok
       /\ Len(op.calls) = 2 =>
            ~op.calls[1].ok /\ op.calls[2].req = PAGE_READWRITE
       /\ op.thrown = "AccessDenied" <=>
            (Len(op.calls) = 2 /\ ~op.calls[2].ok)
       /\ op.thrown # "none" => guards[op.g].st = "failed"
       /\ ( /\ guards[op.g].st = "live"
            /\ ~ \/ guards[op.g].type_ = kRead /\ CanRead(guards[op.g].mbi_)
                 \/ guards[op.g].type_ = kWrite /\ CanWrite(guards[op.g].mbi_) )
          => op.calls # << >>
  /\ IsRestoring => guards[op.g].st # "failed"

\* Both requests were refused.
C6_Witness ==
  /\ op.name = "Construct"
  /\ op.thrown = "AccessDenied"
  /\ Len(op.calls) = 2

\* C7: a guard that holds no restoration responsibility (it is moved-from,
\* or never had any) issues no mutator call in Restore or in its
\* destruction, and the guard a move handed the responsibility to issues
\* exactly one when it is destroyed.
C7_MoveTransfersResponsibility ==
  /\ (IsRestoring /\ ~op.h.carry) => op.calls = << >>
  /\ ( /\ op.name = "Destroy"
       /\ op.h.carry
       /\ op.h.pristineOld = 0
       /\ op.h.prev = "none" )
     => Len(op.calls) = 1

\* C8: a destruction never lets an error out: a failed restoring call is
\* reported through the diagnostics and the guard is gone; the same failure
\* in an explicit Restore is propagated.
C8_DestroySwallowsRestorePropagates ==
  /\ op.name = "Destroy" =>
       /\ op.thrown = "none"
       /\ guards[op.g].st = "dead"
       /\ (Outcome(op.calls) = "fail") <=> (op.diag = 1)
  /\ (op.name = "Restore" /\ Outcome(op.calls) = "fail") =>
       op.thrown = "AccessDenied"

\* A destruction whose restoring call failed.
C8_Witness ==
  op.name = "Destroy" /\ Outcome(op.calls) = "fail" /\ op.diag = 1

\* C20: constructing a guard from an address that is not mapped fails with
\* the query's error and issues no mutator call; no guard exists afterwards.
C20_UnmappedAddressPropagates ==
  op.name = "ConstructUnmapped" =>
    /\ op.thrown = "NotFound"
    /\ op.calls = << >>
    /\ guards[op.g].st = "failed"

\* A guard for writing was requested on an unmapped address while the
\* read-only region was untouched.
C20_Witness ==
  /\ op.name = "ConstructUnmapped"
  /\ op.thrown = "NotFound"
  /\ op.g = 2
  /\ guards[1].st = "live"
  /\ orig = PAGE_READONLY

\* --------------------------------------------- DirectInputDevice8WProxy
E_NOINTERFACE == -2147467262

\* The HRESULT values the device answers with: S_OK, S_FALSE, E_FAIL and
\* E_NOINTERFACE.
HResults == {0, 1, -2147467259, E_NOINTERFACE}

\* SUCCEEDED(hr)
SUCCEEDED(hr) == hr >= 0

\* The values of the thread's last-error code: ERROR_SUCCESS and
\* ERROR_ACCESS_DENIED.
ErrorCodes == {0, 5}

\* The argument tuples a caller passes to a data operation.
ArgValues == {1, 2}

\* LastErrorPreserver: amb is the thread's last-error value, saved the
\* preserver's last_error_. The constructor reads GetLastError(), Revert()
\* sets the saved value, Update() reads the current one and the destructor
\* sets the saved value.
Preserver(err) == [amb |-> err, saved |-> err]

Revert(p) == [p EXCEPT !.amb = p.saved]

Update(p) == [p EXCEPT !.saved = p.amb]

Unwind(p) == p.saved

\* Some code running in between leaves e in the thread's last-error value.
SetLastError(p, e) == [p EXCEPT !.amb = e]

\* A callback reads the result it is handed and either leaves it ("keep") or
\* overwrites it ("flip": a success becomes E_FAIL, a failure S_OK).
Callbacks == {"keep", "flip"}

Apply(cb, r) ==
  IF cb = "keep" THEN r ELSE IF SUCCEEDED(r) THEN -2147467259 ELSE 0

\* Callbacks::Run(args..., &ret): every callback of the list in registration
\* order, each handed the result as the one before left it.
RECURSIVE Run(_, _)
Run(cbs, r) ==
  IF cbs = << >>
    THEN [seen |-> << >>, ret |-> r]
    ELSE LET rest == Run(Tail(cbs), Apply(Head(cbs), r))
         IN [seen |-> <<r>> \o rest.seen, ret |-> rest.ret]

\* Bug: AddRef counts the reference but does not forward to the device.
AddRefNotForwarded(refs, dev) ==
  [refs |-> refs + 1, dev |-> dev, ret |-> dev]

\* Bug: AddRef returns the proxy's own count.
AddRefReturnsOwnCount(refs, dev) ==
  [refs |-> refs + 1, dev |-> dev + 1, ret |-> refs + 1]

\* AddRef(): refs_++; ret = device_->AddRef(); return ret.
AddRef(refs, dev) ==
  [refs |-> refs + 1, dev |-> dev + 1, ret |-> dev + 1]

\* Bug: the proxy is deleted when its own count reaches zero.
ReleaseDeletesOnOwnCount(refs, dev) ==
  [refs |-> refs - 1, cleanup |-> (refs - 1 = 0), dev |-> dev - 1,
   ret |-> dev - 1, deleted |-> (refs - 1 = 0)]

\* Release(): refs_--; if (refs_ == 0) Cleanup(); ret = device_->Release();
\* if (ret == 0) delete this; return ret.
Release(refs, dev) ==
  [refs |-> refs - 1, cleanup |-> (refs - 1 = 0), dev |-> dev - 1,
   ret |-> dev - 1, deleted |-> (dev - 1 = 0)]

\* Bug: the proxy is handed out without counting the reference.
QueryInterfaceDoesNotCount(refs, dev, hr, dobj) ==
  IF SUCCEEDED(hr)
    THEN IF dobj = "device"
           THEN [refs |-> refs, dev |-> dev + 1, ret |-> hr, obj |-> "proxy",
                 released |-> 0]
           ELSE [refs |-> refs, dev |-> dev, ret |-> E_NOINTERFACE,
                 obj |-> dobj, released |-> 1]
    ELSE [refs |-> refs, dev |-> dev, ret |-> hr, obj |-> dobj,
          released |-> 0]

\* Bug: every failure of the device is reported as E_NOINTERFACE.
QueryInterfaceMasksFailure(refs, dev, hr, dobj) ==
  IF SUCCEEDED(hr)
    THEN IF dobj = "device"
           THEN [refs |-> refs + 1, dev |-> dev + 1, ret |-> hr,
                 obj |-> "proxy", released |-> 0]
           ELSE [refs |-> refs, dev |-> dev, ret |-> E_NOINTERFACE,
                 obj |-> dobj, released |-> 1]
    ELSE [refs |-> refs, dev |-> dev, ret |-> E_NOINTERFACE, obj |-> dobj,
          released |-> 0]

\* Bug: the foreign handle is refused but not released.
QueryInterfaceLeaksForeign(refs, dev, hr, dobj) ==
  IF SUCCEEDED(hr)
    THEN IF dobj = "device"
           THEN [refs |-> refs + 1, dev |-> dev + 1, ret |-> hr,
                 obj |-> "proxy", released |-> 0]
           ELSE [refs |-> refs, dev |-> dev, ret |-> E_NOINTERFACE,
                 obj |-> dobj, released |-> 0]
    ELSE [refs |-> refs, dev |-> dev, ret |-> hr, obj |-> dobj,
          released |-> 0]

\* QueryInterface(riid, obj): the device answered hr and, in *obj, the handle
\* dobj: itself ("device", having counted the new reference on itself),
\* another interface ("other", holding one reference the caller of the
\* device owns) or nothing ("null"). obj is the handle left in *obj, released
\* the number of Release calls made on the handle the device returned.
QueryInterface(refs, dev, hr, dobj) ==
  IF SUCCEEDED(hr)
    THEN IF dobj = "device"
           THEN [refs |-> refs + 1, dev |-> dev + 1, ret |-> hr,
                 obj |-> "proxy", released |-> 0]
           ELSE [refs |-> refs, dev |-> dev, ret |-> E_NOINTERFACE,
                 obj |-> dobj, released |-> 1]
    ELSE [refs |-> refs, dev |-> dev, ret |-> hr, obj |-> dobj,
          released |-> 0]

\* The thread's last-error value through QueryInterface: the preserver is
\* constructed on entry; Revert, the device's call (leaving devErr), Update;
\* the traces and the release of a foreign handle (leaving after); the
\* preserver's destructor on return.
QueryInterfaceLastError(entry, devErr, after) ==
  LET p0 == Preserver(entry)
      p1 == Revert(p0)
      p2 == SetLastError(p1, devErr)
      p3 == Update(p2)
      p4 == SetLastError(p3, after)
  IN [atDevice |-> p1.amb, afterDevice |-> p2.amb, exit |-> Unwind(p4)]

\* Bug: Release forwards without Revert().
ReleaseLastErrorNoRevert(entry, before, devErr, after) ==
  LET p0 == Preserver(entry)
      p1 == SetLastError(p0, before)
      p2 == SetLastError(p1, devErr)
      p3 == Update(p2)
      p4 == SetLastError(p3, after)
  IN [atDevice |-> p1.amb, afterDevice |-> p2.amb, exit |-> Unwind(p4)]

\* The thread's last-error value through Release: the preserver is
\* constructed on entry; the count, the assertion and the Cleanup hook run
\* (leaving before); Revert, the device's call, Update; the trace and delete
\* this (leaving after); the preserver's destructor on return.
ReleaseLastError(entry, before, devErr, after) ==
  LET p0 == Preserver(entry)
      p1 == SetLastError(p0, before)
      p2 == Revert(p1)
      p3 == SetLastError(p2, devErr)
      p4 == Update(p3)
      p5 == SetLastError(p4, after)
  IN [atDevice |-> p2.amb, afterDevice |-> p3.amb, exit |-> Unwind(p5)]

\* Bug: the device's own result is returned, not the callbacks'.
GetDeviceStateReturnsDeviceResult(registry, hr) ==
  LET run == Run(registry["GetDeviceState"], hr)
  IN [devCalls |-> <<"GetDeviceState">>,
      seen |-> run.seen, ret |-> hr]

\* GetDeviceState(len_data, data): ret = device_->GetDeviceState(...), the
\* device answering hr; GetOnGetDeviceStateCallbacks().Run(..., &ret);
\* return ret.
GetDeviceState(registry, hr) ==
  LET run == Run(registry["GetDeviceState"], hr)
  IN [devCalls |-> <<"GetDeviceState">>,
      seen |-> run.seen, ret |-> run.ret]

\* GetDeviceData(len_object_data, rgdod, in_out, flags): the same with
\* GetOnGetDeviceDataCallbacks().
GetDeviceData(registry, hr) ==
  LET run == Run(registry["GetDeviceData"], hr)
  IN [devCalls |-> <<"GetDeviceData">>,
      seen |-> run.seen, ret |-> run.ret]

\* The thread's last-error value through GetDeviceState and GetDeviceData:
\* the preserver is constructed on entry; Revert, the device's call, Update;
\* the callbacks run (leaving after); the preserver's destructor on return.
GetDeviceStateLastError(entry, devErr, after) ==
  LET p0 == Preserver(entry)
      p1 == Revert(p0)
      p2 == SetLastError(p1, devErr)
      p3 == Update(p2)
      p4 == SetLastError(p3, after)
  IN [atDevice |-> p1.amb, afterDevice |-> p2.amb, exit |-> Unwind(p4)]

GetDeviceDataLastError(entry, devErr, after) ==
  LET p0 == Preserver(entry)
      p1 == Revert(p0)
      p2 == SetLastError(p1, devErr)
      p3 == Update(p2)
      p4 == SetLastError(p3, after)
  IN [atDevice |-> p1.amb, afterDevice |-> p2.amb, exit |-> Unwind(p4)]

\* The operations the proxy does not intercept.
UnselectedOps ==
  {"GetCapabilities", "EnumObjects", "GetProperty", "SetProperty", "Acquire",
   "Unacquire", "SetDataFormat", "SetEventNotification",
   "SetCooperativeLevel", "GetObjectInfo", "GetDeviceInfo", "RunControlPanel",
   "Initialize", "CreateEffect", "EnumEffects", "GetEffectInfo",
   "GetForceFeedbackState", "SendForceFeedbackCommand",
   "EnumCreatedEffectObjects", "Escape", "Poll", "SendDeviceData",
   "EnumEffectsInFile", "WriteEffectToFile", "BuildActionMap", "SetActionMap",
   "GetImageInfo"}

\* Bug: the result of the device is dropped and success is returned.
ForwardReturnsSuccess(refs, dev, m, args, hr) ==
  [refs |-> refs, dev |-> dev, devCalls |-> <<m>>, devArgs |-> args,
   seen |-> << >>, ret |-> 0]

\* return device_->m(args...), for each operation m of UnselectedOps, the
\* device answering hr.
Forward(refs, dev, m, args, hr) ==
  [refs |-> refs, dev |-> dev, devCalls |-> <<m>>, devArgs |-> args,
   seen |-> << >>, ret |-> hr]

ProxyInit ==
  /\ refs_ = 1
  /\ aliases \in 0..MaxAliases
  /\ devRefs = 1 + aliases
  /\ proxy = "live"
  /\ cleanups = 0
  /\ pop = ProxyCall("none", 0, FALSE, FALSE, 0)
  /\ seq = NoSeq
  /\ obs = NoObs
  /\ lastError \in ErrorCodes
  /\ reg = [k \in Kinds |-> << >>]
  /\ ThreadIdle
  /\ GuardIdle
  /\ DumpIdle

\* The proxy can be called: it has not been deleted and the device it
\* forwards to still exists.
Callable == proxy = "live" /\ devRefs > 0

\* A client calls AddRef on the proxy. Nothing preserves the last-error
\* value here: it is what the device and the trace leave.
ProxyAddRef ==
  /\ Callable
  /\ devRefs < MaxRefs
  /\ LET a == AddRef(refs_, devRefs)
     IN /\ refs_' = a.refs
        /\ devRefs' = a.dev
        /\ pop' = ProxyCall("AddRef", a.ret, FALSE, FALSE, 0)
        /\ obs' = [NoObs EXCEPT !.drefs = a.refs - refs_,
                                !.ddev = a.dev - devRefs, !.dev = a.dev]
        /\ seq' = IF seq.phase = "adding"
                    THEN [seq EXCEPT !.n = @ + 1]
                    ELSE [phase |-> "adding", base |-> devRefs, n |-> 1,
                          k |-> 0]
  /\ lastError' \in ErrorCodes
  /\ UNCHANGED <<aliases, proxy, cleanups, reg, guardVars, threadVars,
                 dumpVars>>

\* A client calls Release on the proxy.
ProxyRelease ==
  /\ Callable
  /\ refs_ > 0 - MaxUnderflow
  /\ \E before \in ErrorCodes, devErr \in ErrorCodes, after \in ErrorCodes :
       LET r == Release(refs_, devRefs)
           e == ReleaseLastError(lastError, before, devErr, after)
       IN /\ r.cleanup => cleanups < MaxCleanups
          /\ refs_' = r.refs
          /\ devRefs' = r.dev
          /\ cleanups' = IF r.cleanup THEN cleanups + 1 ELSE cleanups
          /\ proxy' = IF r.deleted THEN "destroyed" ELSE proxy
          /\ pop' = ProxyCall("Release", r.ret, r.cleanup, r.deleted, 0)
          /\ obs' = [NoObs EXCEPT !.drefs = r.refs - refs_,
                                  !.ddev = r.dev - devRefs, !.dev = r.dev,
                                  !.errEntry = lastError,
                                  !.errAtDevice = e.atDevice,
                                  !.errAfterDevice = devErr]
          /\ lastError' = e.exit
          /\ seq' = IF seq.phase \in {"adding", "releasing"} /\ seq.k < seq.n
                      THEN [seq EXCEPT !.phase = "releasing", !.k = @ + 1]
                      ELSE NoSeq
  /\ UNCHANGED <<aliases, reg, guardVars, threadVars, dumpVars>>

\* A client calls QueryInterface on the proxy; the device answers hr and
\* the handle dobj.
ProxyQueryInterface(hr, dobj) ==
  /\ Callable
  /\ IF SUCCEEDED(hr) THEN dobj \in {"device", "other"} ELSE dobj = "null"
  /\ (SUCCEEDED(hr) /\ dobj = "device") => devRefs < MaxRefs
  /\ \E devErr \in ErrorCodes, after \in ErrorCodes :
       LET q == QueryInterface(refs_, devRefs, hr, dobj)
           e == QueryInterfaceLastError(lastError, devErr, after)
       IN /\ refs_' = q.refs
          /\ devRefs' = q.dev
          /\ pop' = ProxyCall("QueryInterface", q.ret, FALSE, FALSE,
                              q.released)
          /\ obs' = [NoObs EXCEPT !.hr = hr, !.dobj = dobj, !.obj = q.obj,
                                  !.drefs = q.refs - refs_,
                                  !.ddev = q.dev - devRefs, !.dev = q.dev,
                                  !.errEntry = lastError,
                                  !.errAtDevice = e.atDevice,
                                  !.errAfterDevice = devErr]
          /\ lastError' = e.exit
          /\ seq' = NoSeq
  /\ UNCHANGED <<aliases, proxy, cleanups, reg, guardVars, threadVars,
                 dumpVars>>

\* A client calls GetDeviceState on the proxy.
ProxyGetDeviceState(hr) ==
  /\ Callable
  /\ \E devErr \in ErrorCodes, after \in ErrorCodes :
       LET c == GetDeviceState(reg, hr)
           e == GetDeviceStateLastError(lastError, devErr, after)
       IN /\ pop' = ProxyCall("GetDeviceState", c.ret, FALSE, FALSE, 0)
          /\ obs' = [NoObs EXCEPT !.hr = hr,
                                  !.devCalls = c.devCalls,
                                  !.cbs = reg["GetDeviceState"],
                                  !.seen = c.seen,
                                  !.errEntry = lastError,
                                  !.errAtDevice = e.atDevice,
                                  !.errAfterDevice = devErr]
          /\ lastError' = e.exit
  /\ UNCHANGED <<refs_, devRefs, aliases, proxy, cleanups, seq, reg,
                 guardVars, threadVars, dumpVars>>

\* A client calls GetDeviceData on the proxy.
ProxyGetDeviceData(hr) ==
  /\ Callable
  /\ \E devErr \in ErrorCodes, after \in ErrorCodes :
       LET c == GetDeviceData(reg, hr)
           e == GetDeviceDataLastError(lastError, devErr, after)
       IN /\ pop' = ProxyCall("GetDeviceData", c.ret, FALSE, FALSE, 0)
          /\ obs' = [NoObs EXCEPT !.hr = hr,
                                  !.devCalls = c.devCalls,
                                  !.cbs = reg["GetDeviceData"],
                                  !.seen = c.seen,
                                  !.errEntry = lastError,
                                  !.errAtDevice = e.atDevice,
                                  !.errAfterDevice = devErr]
          /\ lastError' = e.exit
  /\ UNCHANGED <<refs_, devRefs, aliases, proxy, cleanups, seq, reg,
                 guardVars, threadVars, dumpVars>>

\* A client calls one of the operations the proxy does not intercept; the
\* last-error value is what the device leaves.
ProxyForward(m, args, hr) ==
  /\ Callable
  /\ LET c == Forward(refs_, devRefs, m, args, hr)
     IN /\ refs_' = c.refs
        /\ devRefs' = c.dev
        /\ pop' = ProxyCall(m, c.ret, FALSE, FALSE, 0)
        /\ obs' = [NoObs EXCEPT !.hr = hr, !.args = args,
                                !.drefs = c.refs - refs_,
                                !.ddev = c.dev - devRefs,
                                !.dev = c.dev,
                                !.devCalls = c.devCalls,
                                !.devArgs = c.devArgs, !.seen = c.seen]
  /\ lastError' \in ErrorCodes
  /\ UNCHANGED <<aliases, proxy, cleanups, seq, reg, guardVars, threadVars,
                 dumpVars>>

\* A callback is registered for an operation kind: it is appended to the
\* kind's list.
Register(kind, cb) ==
  /\ Len(reg["GetDeviceState"]) + Len(reg["GetDeviceData"]) < MaxCallbacks
  /\ reg' = [reg EXCEPT ![kind] = Append(@, cb)]
  /\ UNCHANGED <<refs_, devRefs, aliases, proxy, cleanups, pop, seq, obs,
                 lastError, guardVars, threadVars, dumpVars>>

\* A holder of the device obtained before wrapping takes another reference
\* on the device itself.
AliasAddRef ==
  /\ devRefs > 0
  /\ aliases > 0
  /\ aliases < MaxAliases
  /\ devRefs < MaxRefs
  /\ aliases' = aliases + 1
  /\ devRefs' = devRefs + 1
  /\ seq' = NoSeq
  /\ UNCHANGED <<refs_, proxy, cleanups, pop, obs, lastError, reg, guardVars,
                 threadVars, dumpVars>>

\* Such a holder releases a reference on the device itself.
AliasRelease ==
  /\ devRefs > 0
  /\ aliases > 0
  /\ aliases' = aliases - 1
  /\ devRefs' = devRefs - 1
  /\ seq' = NoSeq
  /\ UNCHANGED <<refs_, proxy, cleanups, pop, obs, lastError, reg, guardVars,
                 threadVars, dumpVars>>

ProxyNext ==
  \/ ProxyAddRef
  \/ ProxyRelease
  \/ \E hr \in HResults, dobj \in {"device", "other", "null"} :
        ProxyQueryInterface(hr, dobj)
  \/ AliasAddRef
  \/ AliasRelease

ProxySpec == ProxyInit /\ [][ProxyNext]_vars

\* The proxy right after it was created around a device nobody else holds,
\* no callback registered yet.
CallInit ==
  /\ refs_ = 1
  /\ aliases = 0
  /\ devRefs = 1
  /\ proxy = "live"
  /\ cleanups = 0
  /\ pop = ProxyCall("none", 0, FALSE, FALSE, 0)
  /\ seq = NoSeq
  /\ obs = NoObs
  /\ lastError \in ErrorCodes
  /\ reg = [k \in Kinds |-> << >>]
  /\ ThreadIdle
  /\ GuardIdle
  /\ DumpIdle

CallNext ==
  \/ \E kind \in Kinds, cb \in Callbacks : Register(kind, cb)
  \/ \E hr \in HResults : ProxyGetDeviceState(hr)
  \/ \E hr \in HResults : ProxyGetDeviceData(hr)
  \/ \E hr \in HResults, dobj \in {"device", "other", "null"} :
        ProxyQueryInterface(hr, dobj)
  \/ ProxyRelease

CallSpec == CallInit /\ [][CallNext]_vars

\* The calls of a client that uses the device through the proxy and counts
\* its references.
ForwardNext ==
  \/ \E m \in UnselectedOps, args \in ArgValues, hr \in HResults :
        ProxyForward(m, args, hr)
  \/ ProxyAddRef
  \/ ProxyRelease

ForwardSpec == CallInit /\ [][ForwardNext]_vars

\* ------------------------------------ AddRef and Release, statement by
\* statement, called by several threads
\* Bug: the Cleanup hook runs after the Release of the device.
ReleaseProgramCleansUpLate(label, zero, ret) ==
  CASE label = "rel_dec" -> "rel_test"
    [] label = "rel_test" -> "rel_fwd"
    [] label = "rel_fwd" -> IF zero THEN "rel_cleanup" ELSE "rel_trace"
    [] label = "rel_cleanup" -> "rel_trace"
    [] label = "rel_trace" -> IF ret = 0 THEN "rel_delete" ELSE "idle"
    [] OTHER -> "idle"

\* Release(), the statement that follows the one at label: refs_--; the test
\* refs_ == 0 (zero is what it found); Cleanup(); ret = device_->Release();
\* the trace; the test ret == 0 and delete this; return.
ReleaseProgram(label, zero, ret) ==
  CASE label = "rel_dec" -> "rel_test"
    [] label = "rel_test" -> IF zero THEN "rel_cleanup" ELSE "rel_fwd"
    [] label = "rel_cleanup" -> "rel_fwd"
    [] label = "rel_fwd" -> "rel_trace"
    [] label = "rel_trace" -> IF ret = 0 THEN "rel_delete" ELSE "idle"
    [] OTHER -> "idle"

\* Bug: AddRef counts the reference and does not forward to the device.
AddRefProgramSkipsForward(label) ==
  CASE label = "add_inc" -> "add_trace"
    [] OTHER -> "idle"

\* AddRef(): refs_++; ret = device_->AddRef(); the trace; return.
AddRefProgram(label) ==
  CASE label = "add_inc" -> "add_fwd"
    [] label = "add_fwd" -> "add_trace"
    [] OTHER -> "idle"

\* The statements used after delete this, st being one that reads or writes
\* a member of the proxy.
Uses(st) == IF proxy = "destroyed" THEN late \cup {st} ELSE late

\* Thread t, holding a reference, calls Release and so gives it up.
CallRelease(t) ==
  /\ pc[t] = "idle"
  /\ held[t] > 0
  /\ pc' = [pc EXCEPT ![t] = "rel_dec"]
  /\ held' = [held EXCEPT ![t] = @ - 1]
  /\ loc' = [loc EXCEPT ![t] = [zero |-> FALSE, ret |-> 0]]
  /\ trail' = [trail EXCEPT ![t] = << >>]
  /\ UNCHANGED <<refs_, devRefs, aliases, proxy, cleanups, pop, seq, obs,
                 lastError, reg, late, zeroed, traceNoisy, guardVars,
                 dumpVars>>

\* refs_--, on the atomic counter.
ReleaseDecrement(t) ==
  /\ pc[t] = "rel_dec"
  /\ refs_' = refs_ - 1
  /\ zeroed' = IF refs_ - 1 = 0 THEN zeroed + 1 ELSE zeroed
  /\ late' = Uses("refs_--")
  /\ trail' = [trail EXCEPT ![t] = Append(@, "decrement")]
  /\ pc' = [pc EXCEPT ![t] = ReleaseProgram("rel_dec", loc[t].zero, loc[t].ret)]
  /\ UNCHANGED <<devRefs, aliases, proxy, cleanups, pop, seq, obs, lastError,
                 reg, held, loc, traceNoisy, guardVars, dumpVars>>

\* if (refs_ == 0)
ReleaseTest(t) ==
  /\ pc[t] = "rel_test"
  /\ loc' = [loc EXCEPT ![t].zero = (refs_ = 0)]
  /\ late' = Uses("refs_ == 0")
  /\ pc' = [pc EXCEPT ![t] = ReleaseProgram("rel_test", refs_ = 0, loc[t].ret)]
  /\ UNCHANGED <<refs_, devRefs, aliases, proxy, cleanups, pop, seq, obs,
                 lastError, reg, held, trail, zeroed, traceNoisy, guardVars,
                 dumpVars>>

\* Cleanup();
ReleaseCleanup(t) ==
  /\ pc[t] = "rel_cleanup"
  /\ cleanups' = cleanups + 1
  /\ late' = Uses("Cleanup")
  /\ trail' = [trail EXCEPT ![t] = Append(@, "cleanup")]
  /\ pc' = [pc EXCEPT ![t] =
              ReleaseProgram("rel_cleanup", loc[t].zero, loc[t].ret)]
  /\ UNCHANGED <<refs_, devRefs, aliases, proxy, pop, seq, obs, lastError,
                 reg, held, loc, zeroed, traceNoisy, guardVars, dumpVars>>

\* ret = device_->Release();
ReleaseForward(t) ==
  /\ pc[t] = "rel_fwd"
  /\ devRefs' = devRefs - 1
  /\ loc' = [loc EXCEPT ![t].ret = devRefs - 1]
  /\ late' = Uses("device_")
  /\ trail' = [trail EXCEPT ![t] = Append(@, "forward")]
  /\ pc' = [pc EXCEPT ![t] =
              ReleaseProgram("rel_fwd", loc[t].zero, devRefs - 1)]
  /\ UNCHANGED <<refs_, aliases, proxy, cleanups, pop, seq, obs, lastError,
                 reg, held, zeroed, traceNoisy, guardVars, dumpVars>>

\* HADESMEM_DETAIL_TRACE_NOISY_FORMAT_A(..., ret, refs_): refs_ is read in
\* the builds that evaluate the arguments of the noisy traces.
ReleaseTrace(t) ==
  /\ pc[t] = "rel_trace"
  /\ late' = IF traceNoisy THEN Uses("trace") ELSE late
  /\ pc' = [pc EXCEPT ![t] =
              ReleaseProgram("rel_trace", loc[t].zero, loc[t].ret)]
  /\ UNCHANGED <<refs_, devRefs, aliases, proxy, cleanups, pop, seq, obs,
                 lastError, reg, held, loc, trail, zeroed, traceNoisy,
                 guardVars, dumpVars>>

\* delete this; (ret == 0)
ReleaseDelete(t) ==
  /\ pc[t] = "rel_delete"
  /\ proxy' = "destroyed"
  /\ late' = Uses("delete this")
  /\ trail' = [trail EXCEPT ![t] = Append(@, "delete")]
  /\ pc' = [pc EXCEPT ![t] =
              ReleaseProgram("rel_delete", loc[t].zero, loc[t].ret)]
  /\ UNCHANGED <<refs_, devRefs, aliases, cleanups, pop, seq, obs, lastError,
                 reg, held, loc, zeroed, traceNoisy, guardVars, dumpVars>>

\* Thread t, holding a reference, calls AddRef.
CallAddRef(t) ==
  /\ pc[t] = "idle"
  /\ held[t] > 0
  /\ refs_ < MaxRefs
  /\ devRefs < MaxRefs
  /\ pc' = [pc EXCEPT ![t] = "add_inc"]
  /\ loc' = [loc EXCEPT ![t] = [zero |-> FALSE, ret |-> 0]]
  /\ trail' = [trail EXCEPT ![t] = << >>]
  /\ UNCHANGED <<refs_, devRefs, aliases, proxy, cleanups, pop, seq, obs,
                 lastError, reg, held, late, zeroed, traceNoisy, guardVars,
                 dumpVars>>

\* refs_++, on the atomic counter.
AddRefIncrement(t) ==
  /\ pc[t] = "add_inc"
  /\ refs_' = refs_ + 1
  /\ late' = Uses("refs_++")
  /\ trail' = [trail EXCEPT ![t] = Append(@, "increment")]
  /\ pc' = [pc EXCEPT ![t] = AddRefProgram("add_inc")]
  /\ UNCHANGED <<devRefs, aliases, proxy, cleanups, pop, seq, obs, lastError,
                 reg, held, loc, zeroed, traceNoisy, guardVars, dumpVars>>

\* ret = device_->AddRef();
AddRefForward(t) ==
  /\ pc[t] = "add_fwd"
  /\ devRefs' = devRefs + 1
  /\ loc' = [loc EXCEPT ![t].ret = devRefs + 1]
  /\ late' = Uses("device_")
  /\ trail' = [trail EXCEPT ![t] = Append(@, "forward")]
  /\ pc' = [pc EXCEPT ![t] = AddRefProgram("add_fwd")]
  /\ UNCHANGED <<refs_, aliases, proxy, cleanups, pop, seq, obs, lastError,
                 reg, held, zeroed, traceNoisy, guardVars, dumpVars>>

\* The trace of AddRef, then return ret: the caller holds one more reference.
AddRefTrace(t) ==
  /\ pc[t] = "add_trace"
  /\ late' = IF traceNoisy THEN Uses("trace") ELSE late
  /\ held' = [held EXCEPT ![t] = @ + 1]
  /\ pc' = [pc EXCEPT ![t] = AddRefProgram("add_trace")]
  /\ UNCHANGED <<refs_, devRefs, aliases, proxy, cleanups, pop, seq, obs,
                 lastError, reg, loc, trail, zeroed, traceNoisy, guardVars,
                 dumpVars>>

\* Every thread holds one reference it obtained through the proxy; others
\* may hold the device itself.
ThreadInit ==
  /\ refs_ = NumThreads
  /\ aliases \in 0..MaxAliases
  /\ devRefs = NumThreads + aliases
  /\ proxy = "live"
  /\ cleanups = 0
  /\ pop = ProxyCall("none", 0, FALSE, FALSE, 0)
  /\ seq = NoSeq
  /\ obs = NoObs
  /\ lastError = 0
  /\ reg = [k \in Kinds |-> << >>]
  /\ pc = [t \in Threads |-> "idle"]
  /\ held = [t \in Threads |-> 1]
  /\ loc = [t \in Threads |-> [zero |-> FALSE, ret |-> 0]]
  /\ trail = [t \in Threads |-> << >>]
  /\ late = {}
  /\ zeroed = 0
  /\ traceNoisy \in BOOLEAN
  /\ GuardIdle
  /\ DumpIdle

ThreadNext ==
  \E t \in Threads :
    \/ CallRelease(t)
    \/ ReleaseDecrement(t)
    \/ ReleaseTest(t)
    \/ ReleaseCleanup(t)
    \/ ReleaseForward(t)
    \/ ReleaseTrace(t)
    \/ ReleaseDelete(t)
    \/ CallAddRef(t)
    \/ AddRefIncrement(t)
    \/ AddRefForward(t)
    \/ AddRefTrace(t)

ThreadSpec == ThreadInit /\ [][ThreadNext]_vars

\* ------------------------------------ clients that count their references
\* Bug: the proxy is handed out without counting the reference.
QueryInterfaceProgramSkipsCount(label, hr, dobj) ==
  CASE label = "qi_fwd" ->
         IF SUCCEEDED(hr)
           THEN IF dobj = "device" THEN "qi_subst" ELSE "qi_release"
           ELSE "idle"
    [] label = "qi_count" -> "qi_subst"
    [] OTHER -> "idle"

\* QueryInterface(riid, obj), the statement that follows the one at label:
\* ret = device_->QueryInterface(riid, obj), the device answering hr and
\* the handle dobj; under SUCCEEDED(ret) and *obj == device_, refs_++, then
\* *obj = this and return ret; under SUCCEEDED(ret) and another handle, its
\* Release and return E_NOINTERFACE; otherwise return ret.
QueryInterfaceProgram(label, hr, dobj) ==
  CASE label = "qi_fwd" ->
         IF SUCCEEDED(hr)
           THEN IF dobj = "device" THEN "qi_count" ELSE "qi_release"
           ELSE "idle"
    [] label = "qi_count" -> "qi_subst"
    [] OTHER -> "idle"

\* Thread t, holding a reference, calls QueryInterface.
CallQueryInterface(t) ==
  /\ pc[t] = "idle"
  /\ held[t] > 0
  /\ refs_ < MaxRefs
  /\ devRefs < MaxRefs
  /\ pc' = [pc EXCEPT ![t] = "qi_fwd"]
  /\ loc' = [loc EXCEPT ![t] = [zero |-> FALSE, ret |-> 0]]
  /\ trail' = [trail EXCEPT ![t] = << >>]
  /\ UNCHANGED <<refs_, devRefs, aliases, proxy, cleanups, pop, seq, obs,
                 lastError, reg, held, late, zeroed, traceNoisy, guardVars,
                 dumpVars>>

\* ret = device_->QueryInterface(riid, obj): the device answers hr and, when
\* it succeeds, a handle on which it has counted one reference; a failure is
\* returned as it is, and the locals of the call are gone.
QueryInterfaceForward(t, hr, dobj) ==
  /\ pc[t] = "qi_fwd"
  /\ IF SUCCEEDED(hr) THEN dobj \in {"device", "other"} ELSE dobj = "null"
  /\ devRefs' = IF SUCCEEDED(hr) /\ dobj = "device"
                  THEN devRefs + 1
                  ELSE devRefs
  /\ loc' = [loc EXCEPT ![t].ret =
                IF QueryInterfaceProgram("qi_fwd", hr, dobj) = "idle"
                  THEN 0
                  ELSE hr]
  /\ late' = Uses("device_")
  /\ pc' = [pc EXCEPT ![t] = QueryInterfaceProgram("qi_fwd", hr, dobj)]
  /\ UNCHANGED <<refs_, aliases, proxy, cleanups, pop, seq, obs, lastError,
                 reg, held, trail, zeroed, traceNoisy, guardVars, dumpVars>>

\* refs_++, on the atomic counter.
QueryInterfaceCount(t) ==
  /\ pc[t] = "qi_count"
  /\ refs_' = refs_ + 1
  /\ late' = Uses("refs_++")
  /\ pc' = [pc EXCEPT ![t] =
              QueryInterfaceProgram("qi_count", loc[t].ret, "device")]
  /\ UNCHANGED <<devRefs, aliases, proxy, cleanups, pop, seq, obs, lastError,
                 reg, held, loc, trail, zeroed, traceNoisy, guardVars,
                 dumpVars>>

\* *obj = this; return ret: the caller holds one more reference, and the
\* locals of the call are gone.
QueryInterfaceSubstitute(t) ==
  /\ pc[t] = "qi_subst"
  /\ held' = [held EXCEPT ![t] = @ + 1]
  /\ loc' = [loc EXCEPT ![t].ret = 0]
  /\ pc' = [pc EXCEPT ![t] =
              QueryInterfaceProgram("qi_subst", loc[t].ret, "device")]
  /\ UNCHANGED <<refs_, devRefs, aliases, proxy, cleanups, pop, seq, obs,
                 lastError, reg, trail, late, zeroed, traceNoisy, guardVars,
                 dumpVars>>

\* static_cast<IUnknown*>(*obj)->Release(); return E_NOINTERFACE: the caller
\* holds nothing more, and the locals of the call are gone.
QueryInterfaceRefuse(t) ==
  /\ pc[t] = "qi_release"
  /\ loc' = [loc EXCEPT ![t].ret = 0]
  /\ pc' = [pc EXCEPT ![t] =
              QueryInterfaceProgram("qi_release", loc[t].ret, "other")]
  /\ UNCHANGED <<refs_, devRefs, aliases, proxy, cleanups, pop, seq, obs,
                 lastError, reg, held, trail, late, zeroed, traceNoisy,
                 guardVars, dumpVars>>

\* Thread t, between two calls, hands one of the references it holds to
\* thread u, which holds none: u takes more of them with AddRef and
\* QueryInterface.
GiveReference(t, u) ==
  /\ t # u
  /\ pc[t] = "idle"
  /\ held[t] > 0
  /\ held[u] = 0
  /\ held' = [held EXCEPT ![t] = @ - 1, ![u] = @ + 1]
  /\ UNCHANGED <<refs_, devRefs, aliases, proxy, cleanups, pop, seq, obs,
                 lastError, reg, pc, loc, trail, late, zeroed, traceNoisy,
                 guardVars, dumpVars>>

\* The proxy right after it was created with refs_ = 1 around the reference
\* it takes over, which the first thread holds; others may hold the device
\* itself.
ClientInit ==
  /\ refs_ = 1
  /\ aliases \in 0..MaxAliases
  /\ devRefs = 1 + aliases
  /\ proxy = "live"
  /\ cleanups = 0
  /\ pop = ProxyCall("none", 0, FALSE, FALSE, 0)
  /\ seq = NoSeq
  /\ obs = NoObs
  /\ lastError = 0
  /\ reg = [k \in Kinds |-> << >>]
  /\ pc = [t \in Threads |-> "idle"]
  /\ held = [t \in Threads |-> IF t = 1 THEN 1 ELSE 0]
  /\ loc = [t \in Threads |-> [zero |-> FALSE, ret |-> 0]]
  /\ trail = [t \in Threads |-> << >>]
  /\ late = {}
  /\ zeroed = 0
  /\ traceNoisy = FALSE
  /\ GuardIdle
  /\ DumpIdle

\* The statements of QueryInterface, AddRef and Release run by threads that
\* release only the references they obtained through the proxy.
ClientNext ==
  \/ \E t \in Threads :
       \/ CallQueryInterface(t)
       \/ \E hr \in HResults, dobj \in {"device", "other", "null"} :
             QueryInterfaceForward(t, hr, dobj)
       \/ QueryInterfaceCount(t)
       \/ QueryInterfaceSubstitute(t)
       \/ QueryInterfaceRefuse(t)
       \/ CallAddRef(t)
       \/ AddRefIncrement(t)
       \/ AddRefForward(t)
       \/ AddRefTrace(t)
       \/ CallRelease(t)
       \/ ReleaseDecrement(t)
       \/ ReleaseTest(t)
       \/ ReleaseCleanup(t)
       \/ ReleaseForward(t)
       \/ ReleaseTrace(t)
       \/ ReleaseDelete(t)
  \/ \E t \in Threads, u \in Threads : GiveReference(t, u)
  \/ AliasRelease

ClientSpec == ClientInit /\ [][ClientNext]_vars

\* The statement thread t is at inside a call: a thread that has entered
\* QueryInterface, AddRef or Release runs it to its return.
ClientStep(t) ==
  \/ \E hr \in HResults, dobj \in {"device", "other", "null"} :
        QueryInterfaceForward(t, hr, dobj)
  \/ QueryInterfaceCount(t)
  \/ QueryInterfaceSubstitute(t)
  \/ QueryInterfaceRefuse(t)
  \/ AddRefIncrement(t)
  \/ AddRefForward(t)
  \/ AddRefTrace(t)
  \/ ReleaseDecrement(t)
  \/ ReleaseTest(t)
  \/ ReleaseCleanup(t)
  \/ ReleaseForward(t)
  \/ ReleaseTrace(t)
  \/ ReleaseDelete(t)

\* The same clients, every call that was entered running to its return.
ClientFairSpec ==
  /\ ClientInit
  /\ [][ClientNext]_vars
  /\ \A t \in Threads : WF_vars(ClientStep(t))

\* ------------------------------------------------------- dump/main.cpp
\* The place the dumper is at: a call that inspects process p (and its
\* module m) and may raise an error.
Site(at, p, m) == [at |-> at, p |-> p, m |-> m]

\* DumpProcesses: the loop over the process list, then the rest of main.
FirstOf(p) ==
  IF p > NumProcesses
    THEN Site("return", 0, 0)
    ELSE Site(IF memonly THEN "open" ELSE "threads", p, 0)

\* DumpModules: the loop over the module list, then DumpRegions.
ModuleOrOn(p, m) ==
  IF m > NumModules THEN Site("regions", p, 0) ELSE Site("pefile", p, m)

\* DumpProcessEntry and DumpModules: the call that follows the one at d when
\* that one returns.
After(d) ==
  CASE d.at = "threads" -> Site("open", d.p, 0)
    [] d.at = "open" -> Site(IF memonly THEN "memory" ELSE "path", d.p, 0)
    [] d.at = "path" -> Site("native", d.p, 0)
    [] d.at = "native" -> Site("modlist", d.p, 0)
    [] d.at = "modlist" -> ModuleOrOn(d.p, 1)
    [] d.at = "pefile" -> Site("headers", d.p, d.m)
    [] d.at = "headers" -> Site("dumppe", d.p, d.m)
    [] d.at = "dumppe" -> ModuleOrOn(d.p, d.m + 1)
    [] d.at = "regions" -> Site("memory", d.p, 0)
    [] OTHER -> FirstOf(d.p + 1)

\* Where an error raised by the call at d is caught: by the handler around
\* the opening of the process (which returns from DumpProcessEntry), by the
\* one around GetPath (which goes on), by the one around the DOS and NT
\* headers (which continues with the next module), or by none before main's
\* catch (...), which returns 1.
OnError(d) ==
  CASE d.at = "open" -> FirstOf(d.p + 1)
    [] d.at = "path" -> After(d)
    [] d.at = "headers" -> ModuleOrOn(d.p, d.m + 1)
    [] OTHER -> Site("error", d.p, d.m)

\* One call of the dumper on its current target: it returns, or raises an
\* error (fault).
Step(at, fault) ==
  /\ dexit = "running"
  /\ dpc.at = at
  /\ LET to == IF fault THEN OnError(dpc) ELSE After(dpc)
     IN /\ dpc' = to
        /\ dexit' = IF to.at = "error" THEN "1" ELSE dexit
        /\ dlog' = [dlog EXCEPT
             ![dpc.p].st =
               IF to.at = "error" THEN "aborted"
               ELSE IF to.p = dpc.p THEN @
               ELSE IF fault THEN "skipped"
               ELSE "done",
             ![dpc.p].mods =
               IF at = "dumppe" /\ ~fault
                 THEN [@ EXCEPT ![dpc.m] = "dumped"]
               ELSE IF at = "headers" /\ fault
                 THEN [@ EXCEPT ![dpc.m] = "skipped"]
               ELSE @]
  /\ UNCHANGED <<memonly, guardVars, proxyVars>>

\* main: the options are parsed, then DumpProcesses(memonly).
MainBegin ==
  /\ dexit = "running"
  /\ dpc.at = "off"
  /\ dpc' = FirstOf(1)
  /\ UNCHANGED <<dexit, dlog, memonly, guardVars, proxyVars>>

\* DumpThreads(process_entry.GetId())
DumpThreads(fault) == Step("threads", fault)

\* std::make_unique<hadesmem::Process>(process_entry.GetId())
OpenProcess(fault) == Step("open", fault)

\* hadesmem::GetPath(*process)
GetPath(fault) == Step("path", fault)

\* hadesmem::GetPathNative(*process), hadesmem::IsWoW64(*process)
GetPathNative(fault) == Step("native", fault)

\* hadesmem::ModuleList const modules(process)
ListModules(fault) == Step("modlist", fault)

\* module.GetName(), module.GetPath(), hadesmem::PeFile const pe_file(...)
OpenPeFile(fault) == Step("pefile", fault)

\* hadesmem::DosHeader, hadesmem::NtHeaders
ReadHeaders(fault) == Step("headers", fault)

\* DumpPeFile(process, pe_file, module.GetPath())
DumpPeFile(fault) == Step("dumppe", fault)

\* DumpRegions(*process)
DumpRegions(fault) == Step("regions", fault)

\* DumpMemory(*process)
DumpMemory(fault) == Step("memory", fault)

\* main: the processes are done; return 0.
MainReturn ==
  /\ dexit = "running"
  /\ dpc.at = "return"
  /\ dexit' = "0"
  /\ dpc' = Site("exit", 0, 0)
  /\ UNCHANGED <<dlog, memonly, guardVars, proxyVars>>

DumpInit ==
  /\ dpc = Site("off", 0, 0)
  /\ dexit = "running"
  /\ dlog = [p \in 1..NumProcesses |-> NoLog]
  /\ memonly \in BOOLEAN
  /\ ProxyIdle
  /\ GuardIdle

DumpNext ==
  \/ MainBegin
  \/ \E fault \in BOOLEAN : DumpThreads(fault)
  \/ \E fault \in BOOLEAN : OpenProcess(fault)
  \/ \E fault \in BOOLEAN : GetPath(fault)
  \/ \E fault \in BOOLEAN : GetPathNative(fault)
  \/ \E fault \in BOOLEAN : ListModules(fault)
  \/ \E fault \in BOOLEAN : OpenPeFile(fault)
  \/ \E fault \in BOOLEAN : ReadHeaders(fault)
  \/ \E fault \in BOOLEAN : DumpPeFile(fault)
  \/ \E fault \in BOOLEAN : DumpRegions(fault)
  \/ \E fault \in BOOLEAN : DumpMemory(fault)
  \/ MainReturn

DumpSpec == DumpInit /\ [][DumpNext]_vars



\* -------------------------------------------------------- proxy: claims
\* C9: N AddRef calls followed by N Release calls through the proxy leave the
\* device's count, and the proxy's, where they were; the proxy is deleted
\* by a Release call exactly when that call brought the device's count to
\* zero, and by nothing else.
C9_AddRefReleaseBalanced ==
  /\ (seq.phase = "releasing" /\ seq.k = seq.n) => devRefs = seq.base
  /\ pop.name = "Release" => (pop.deleted <=> pop.ret = 0)
  /\ proxy = "destroyed" <=> (pop.name = "Release" /\ pop.deleted)
  /\ proxy = "destroyed" => devRefs = 0

\* Two AddRef calls then two Release calls have completed.
C9_Witness ==
  seq.phase = "releasing" /\ seq.n = 2 /\ seq.k = 2 /\ proxy = "live"

\* C10: the external count reaches zero, and the Cleanup hook runs, at most
\* once in the life of the proxy.
C10_ZeroAtMostOnce == cleanups <= 1

\* C11: when the device's QueryInterface succeeds and hands back the device
\* itself, the caller is handed the proxy, the call returns the device's
\* result, and the proxy's count grows by exactly one, as the device's did.
C11_SelfIdentityHandsOutProxy ==
  (pop.name = "QueryInterface" /\ obs.hr >= 0 /\ obs.dobj = "device") =>
    /\ obs.obj = "proxy"
    /\ pop.ret = obs.hr
    /\ obs.drefs = 1
    /\ obs.ddev = 1
    /\ pop.released = 0

\* The device answered S_FALSE and itself to a proxy that held one reference.
C11_Witness ==
  /\ pop.name = "QueryInterface"
  /\ obs.hr = 1
  /\ obs.dobj = "device"
  /\ obs.obj = "proxy"
  /\ pop.ret = 1
  /\ refs_ = 2

\* C12: when the device's QueryInterface succeeds with a handle that is not
\* the device, the call returns E_NOINTERFACE, the handle is released exactly
\* once, and the proxy's count and the device's are what they were.
C12_ForeignIdentityRefused ==
  (pop.name = "QueryInterface" /\ obs.hr >= 0 /\ obs.dobj # "device") =>
    /\ pop.ret = E_NOINTERFACE
    /\ pop.released = 1
    /\ obs.drefs = 0
    /\ obs.ddev = 0

\* The device answered S_OK and another interface.
C12_Witness ==
  /\ pop.name = "QueryInterface"
  /\ obs.hr = 0
  /\ obs.dobj = "other"
  /\ pop.ret = E_NOINTERFACE
  /\ pop.released = 1

\* C15: AddRef adds exactly one to the proxy's count, forwards exactly one
\* AddRef to the device, and returns the device's resulting count.
C15_AddRefReturnsDeviceCount ==
  pop.name = "AddRef" =>
    /\ obs.drefs = 1
    /\ obs.ddev = 1
    /\ pop.ret = obs.dev

\* An AddRef whose result is the device's count, not the proxy's.
C15_Witness ==
  /\ pop.name = "AddRef"
  /\ pop.ret = 3
  /\ refs_ = 2
  /\ devRefs = 3

\* C16: GetDeviceState and GetDeviceData call the device exactly once, then
\* run every callback of their kind once in registration order, whatever the
\* device answered: the first callback finds the device's result, each later
\* one the result its predecessor left, and the caller gets what the last
\* one left.
C16_CallbacksChainTheResult ==
  pop.name \in Kinds =>
    /\ obs.devCalls = <<pop.name>>
    /\ Len(obs.seen) = Len(obs.cbs)
    /\ \A i \in 1..Len(obs.seen) :
         obs.seen[i] =
           IF i = 1 THEN obs.hr ELSE Apply(obs.cbs[i - 1], obs.seen[i - 1])
    /\ pop.ret =
         IF obs.cbs = << >>
           THEN obs.hr
           ELSE Apply(obs.cbs[Len(obs.cbs)], obs.seen[Len(obs.seen)])

\* The device failed; the first callback turned the failure into a success
\* and the second one left it.
C16_Witness ==
  /\ pop.name = "GetDeviceState"
  /\ obs.hr = E_NOINTERFACE
  /\ obs.cbs = <<"flip", "keep">>
  /\ obs.seen = <<E_NOINTERFACE, 0>>
  /\ pop.ret = 0

\* C17: in QueryInterface, Release, GetDeviceState and GetDeviceData the
\* device is called with the last-error value the caller had on entry, and
\* the caller finds the value the device's call left, whatever ran in
\* between.
C17_LastErrorIsTheDevices ==
  pop.name \in {"QueryInterface", "Release", "GetDeviceState",
                "GetDeviceData"} =>
    /\ obs.errAtDevice = obs.errEntry
    /\ lastError = obs.errAfterDevice

\* A Release that ran the Cleanup hook and deleted the proxy, entered with
\* one last-error value and left with the one the device set.
C17_Witness ==
  /\ pop.name = "Release"
  /\ pop.cleanup
  /\ pop.deleted
  /\ obs.errEntry = 5
  /\ obs.errAtDevice = 5
  /\ obs.errAfterDevice = 0
  /\ lastError = 0

\* C18: an operation the proxy does not intercept calls the same operation
\* of the device exactly once with the caller's arguments, returns the
\* device's result, runs no callback and leaves both counts alone.
C18_UnselectedForwardedVerbatim ==
  pop.name \in UnselectedOps =>
    /\ obs.devCalls = <<pop.name>>
    /\ obs.devArgs = obs.args
    /\ pop.ret = obs.hr
    /\ obs.seen = << >>
    /\ obs.drefs = 0
    /\ obs.ddev = 0

\* Poll forwarded with a failure of the device, on a proxy with two
\* references.
C18_Witness ==
  /\ pop.name = "Poll"
  /\ obs.args = 2
  /\ obs.devArgs = 2
  /\ obs.hr = E_NOINTERFACE
  /\ pop.ret = E_NOINTERFACE
  /\ refs_ = 2

\* The position of a step in the order the claim gives.
Rank(step) ==
  CASE step = "decrement" -> 1
    [] step = "cleanup" -> 2
    [] step = "forward" -> 3
    [] step = "delete" -> 4
    [] OTHER -> 0

\* Thread t is in a Release call, or its last call was one.
InRelease(t) == trail[t] # << >> /\ trail[t][1] = "decrement"

Took(t, step) == \E i \in 1..Len(trail[t]) : trail[t][i] = step

\* C13: the steps of every Release call come in the order decrement, Cleanup
\* hook, forwarded Release, destruction; the hook runs exactly when the test
\* found the count at zero, the forwarded Release always, and the destruction
\* exactly when the device returned zero, whatever the proxy's count.
C13_ReleaseStepsInOrder ==
  \A t \in Threads :
    InRelease(t) =>
      /\ \A i \in 1..Len(trail[t]), j \in 1..Len(trail[t]) :
           i < j => Rank(trail[t][i]) < Rank(trail[t][j])
      /\ Took(t, "cleanup") => loc[t].zero
      /\ Took(t, "forward") => (loc[t].zero <=> Took(t, "cleanup"))
      /\ Took(t, "delete") => loc[t].ret = 0
      /\ pc[t] = "idle" =>
           /\ Took(t, "forward")
           /\ Took(t, "delete") <=> loc[t].ret = 0

\* Two Release calls have returned: one took three of the steps, the other,
\* told by the device that its count is zero, all four.
C13_Witness ==
  /\ pc[1] = "idle"
  /\ pc[2] = "idle"
  /\ trail[1] = <<"decrement", "forward">>
  /\ trail[2] = <<"decrement", "cleanup", "forward", "delete">>

\* C14: in every interleaving of AddRef and Release calls of threads that
\* each hold their own reference, the Cleanup hook runs only after the count
\* has reached zero, the proxy is destroyed only after the hook has run, and
\* no statement of a call uses the proxy after its destruction.
C14_NoUseAfterDestruction ==
  /\ cleanups > 0 => zeroed > 0
  /\ proxy = "destroyed" => cleanups > 0
  /\ late = {}

\* C19: an error raised while the dumper inspects one process or one of its
\* modules never makes main take its error exit: the dumper skips or reports
\* that target and goes on, so that when main returns every process has been
\* inspected or skipped.
C19_OneTargetNeverAborts ==
  /\ dexit # "1"
  /\ dexit = "0" =>
       \A p \in 1..NumProcesses : dlog[p].st \in {"done", "skipped"}

\* C21: the assertion refs_ >= 0 of Release holds: in every interleaving of
\* QueryInterface, AddRef and Release calls of threads that release only the
\* references they obtained through the proxy, starting from a proxy created
\* with refs_ = 1, the proxy's count is never negative.
C21_CountNeverNegative == refs_ >= 0

\* Two threads are both past the decrement of their Release call, the second
\* reference having been obtained through the proxy, and the count is zero.
C21_Witness ==
  /\ pc[1] = "rel_test"
  /\ pc[2] = "rel_test"
  /\ refs_ = 0

\* C22: when several threads run Release at the same time, the Cleanup hook
\* runs at most once for each transition of the proxy's count to zero: no
\* two Release calls both find the count at zero and both run the hook.
C22_CleanupOncePerZero == cleanups <= zeroed

\* The AddRef calls that have counted their reference in refs_ and have not
\* yet forwarded to the device.
AddRefsInFlight == Cardinality({t \in Threads : pc[t] = "add_fwd"})

\* C23, as stated: starting from a proxy created with refs_ = 1 for the one
\* reference it takes over, the device's count is at least the proxy's in
\* every reachable state, so a destroyed proxy has refs_ = 0 and its Cleanup
\* hook has run.
C23_DeviceCountCoversProxyCount ==
  /\ devRefs >= refs_
  /\ proxy = "destroyed" => (refs_ = 0 /\ cleanups > 0)

\* C23, amended: the device's count is at least the proxy's less the AddRef
\* calls that have incremented refs_ and not yet forwarded, hence at least
\* the proxy's whenever no AddRef call is between its two statements; a
\* destroyed proxy has refs_ = 0 and its Cleanup hook has run.
C23_DeviceCountCoversForwardedCount ==
  /\ devRefs + AddRefsInFlight >= refs_
  /\ AddRefsInFlight = 0 => devRefs >= refs_
  /\ proxy = "destroyed" => (refs_ = 0 /\ cleanups > 0)

\* The proxy has been destroyed by the last of the Release calls of two
\* threads that shared it.
C23_Witness ==
  /\ proxy = "destroyed"
  /\ refs_ = 0
  /\ InRelease(1)
  /\ InRelease(2)

\* C24: when the device's QueryInterface fails, the proxy returns the
\* device's result as it is, leaves in *obj what the device left there,
\* releases nothing, and the proxy's count and the device's are what they
\* were.
C24_FailurePassesThrough ==
  (pop.name = "QueryInterface" /\ obs.hr < 0) =>
    /\ pop.ret = obs.hr
    /\ obs.obj = obs.dobj
    /\ pop.released = 0
    /\ obs.drefs = 0
    /\ obs.ddev = 0

\* The device answered E_FAIL to a proxy that two references were held on.
C24_Witness ==
  /\ pop.name = "QueryInterface"
  /\ obs.hr = -2147467259
  /\ pop.ret = -2147467259
  /\ obs.obj = "null"
  /\ refs_ = 2

\* C25: whenever the device's count has reached zero, all references on the
\* proxy and all those of the holders of the device itself having been
\* released in whatever order, the proxy is eventually destroyed: it does
\* not stay live once the device is gone.
C25_EventuallyDestroyed == (devRefs = 0) ~> (proxy = "destroyed")

====
